---- MODULE Spec2Model ----
(***************************************************************************)
(* Model of src/server.mjs: one Airtable record ("the batch") fanned out   *)
(* into WaveSpeed jobs by startVariations, and the two channels that bring *)
(* the jobs' results back into the record: pollUntilDone (one per job) and *)
(* the POST /webhooks/wavespeed handler, both through appendOutputs and    *)
(* markCompleted.                                                          *)
(*                                                                         *)
(* Every `await` on the record store or on the job service is one step of  *)
(* the model: the code between two awaits runs without interruption on the *)
(* Node event loop, and a request is served by the remote service at one   *)
(* instant.  The size parsing (lines 174-177) and the "Model", "Size" and   *)
(* "Last Update" fields of the writes carry no state that any handler      *)
(* reads back and are left out.                                            *)
(*                                                                         *)
(* The record store answers every read and write; GET /airtable/run is     *)
(* called once for the record.  What the store answers for a field that    *)
(* holds the empty string is not fixed by the program, which reads every   *)
(* id list as `x || ""` (lines 61, 66): the store either returns "" or     *)
(* leaves the field out (omitEmpty), and both are explored.                *)
(***************************************************************************)
EXTENDS Integers, Sequences, FiniteSets, TLC

(* ------------------------------ bounds --------------------------------- *)
\* Largest "Batch Count" the record holds in the concurrent specifications.
MaxFanout == 2
\* Number of webhook deliveries in one behaviour.
MaxPush == 1
\* Largest reading of the wall clock (nowISO).
MaxClock == 1

(* ------------------------- program constants --------------------------- *)
MinBatch == 1
MaxBatch == 10
DefaultBatch == 4

RecordId == "rec1"

\* Job ids: the job service answers the i-th submission (0-based) with id i+1.
Jobs == 1..MaxBatch

NoTime == -1
NoCount == -1

(* ------------------------------ helpers -------------------------------- *)
\* Map.set(key, value)
Put(map, key, value) ==
    [x \in DOMAIN map \cup {key} |-> IF x = key THEN value ELSE map[x]]

Min(a, b) == IF a < b THEN a ELSE b
Max(a, b) == IF a > b THEN a ELSE b

Range(s) == {s[k] : k \in 1..Len(s)}

\* new Set(list): the elements in first-insertion order, duplicates dropped.
RECURSIVE SetOf(_)
SetOf(s) ==
    IF s = <<>> THEN <<>>
    ELSE LET init == SetOf(SubSeq(s, 1, Len(s) - 1))
             last == s[Len(s)]
         IN IF last \in Range(init) THEN init ELSE Append(init, last)

\* mergeIds(existing, newIds): an id list is the comma-joined string, modelled
\* as the sequence of its ids.
mergeIds(existing, newIds) == SetOf(existing \o newIds)

\* parseIds(str)
parseIds(str) == Range(str)

\* outputs.map((url, i) => ({url, filename: `var_${requestId}_${i}.png`}))
Attachments(outputs, requestId) ==
    [k \in 1..Len(outputs) |->
        [url |-> outputs[k], filename |-> <<"var", requestId, k - 1>>]]

\* Math.max(1, Math.min(10, Number(f["Batch Count"]) || 4)).  The field is
\* <<>> when the record has none, <<n>> when it holds the number n; Number of
\* a missing field is NaN, and NaN and 0 are the falsy numbers of `||`.
batchCountOf(field) ==
    LET falsy == field = <<>> \/ field[1] = 0
        v == IF falsy THEN DefaultBatch ELSE field[1]
    IN Max(MinBatch, Min(MaxBatch, v))

\* The status vocabulary of pollUntilDone and of the webhook handler.
IsSuccess(status) == status \in {"completed", "succeeded"}
IsFailure(status) == status \in {"failed", "error"}

\* What the job service reports as the outputs of job j (max_images: 1).
JobOutputs(j) == << <<"url", j>> >>

(* ------------------------------- state --------------------------------- *)
VARIABLES
    rec,            \* the fields of the Airtable record
    omitEmpty,      \* whether the store leaves empty fields out of a read
    requestMap,     \* Job Registry: job id -> record id
    jobStatus,      \* the job service's status of each job it was given
    sv,             \* the startVariations call
    poll,           \* poll[j]: the pollUntilDone call of job j, once started
    hook,           \* hook[k]: the k-th webhook request
    now             \* the wall clock

vars == <<rec, omitEmpty, requestMap, jobStatus, sv, poll, hook, now>>

NoSnapshot == [Output |-> <<>>, SeenIDs |-> <<>>, FailedIDs |-> <<>>, FailedDefined |-> FALSE]

\* A call of appendOutputs in progress, with the caller's position around it.
IdleTask == [pc |-> "idle", requestId |-> 0, outputs |-> <<>>, failed |-> FALSE,
             cause |-> "none", f |-> NoSnapshot, stamp |-> NoTime, calls |-> 0,
             resp |-> 0]

Hooks == 1..MaxPush

InitRec(prompt, subject, count) ==
    [Prompt |-> prompt, Subject |-> subject, BatchCount |-> count,
     Status |-> "idle", RequestIDs |-> <<>>, SeenIDs |-> <<>>, FailedIDs |-> <<>>,
     Output |-> <<>>, CompletedAt |-> NoTime]

InitRest ==
    /\ omitEmpty \in BOOLEAN
    /\ requestMap = <<>>
    /\ jobStatus = <<>>
    /\ sv = [pc |-> "idle", i |-> 0, batchCount |-> 0, requestIds |-> <<>>,
             attempts |-> 0, slept |-> 0, submitted |-> NoCount]
    /\ poll = <<>>
    /\ hook = [k \in Hooks |-> IdleTask]
    /\ now = 0

Init ==
    /\ \E prompt \in BOOLEAN, subject \in BOOLEAN, count \in 1..MaxFanout :
          rec = InitRec(prompt, subject, <<count>>)
    /\ InitRest

(* --------------------------- record store ------------------------------ *)
\* atGet(id).fields, as far as appendOutputs reads it.  A store that leaves
\* empty fields out of its answer gives f["Failed IDs"] === undefined.
atGet(r) ==
    [Output |-> r.Output, SeenIDs |-> r.SeenIDs, FailedIDs |-> r.FailedIDs,
     FailedDefined |-> ~(omitEmpty /\ r.FailedIDs = <<>>)]

(* ------------------------- startVariations ----------------------------- *)
\* SvGet without the test of line 172.
SvGetUnchecked ==
    /\ sv.pc = "idle"
    /\ sv' = [sv EXCEPT !.pc = "transcode",
                        !.batchCount = batchCountOf(rec.BatchCount)]
    /\ UNCHANGED <<rec, omitEmpty, requestMap, jobStatus, poll, hook, now>>

\* Lines 167-179: read the record, validate, clamp the fan-out.
SvGet ==
    /\ sv.pc = "idle"
    /\ sv' = IF ~rec.Prompt \/ ~rec.Subject
             THEN [sv EXCEPT !.pc = "error"]
             ELSE [sv EXCEPT !.pc = "transcode",
                             !.batchCount = batchCountOf(rec.BatchCount)]
    /\ UNCHANGED <<rec, omitEmpty, requestMap, jobStatus, poll, hook, now>>

\* Line 183: urlToDataURL answers.
SvTranscode ==
    /\ sv.pc = "transcode"
    /\ sv' = [sv EXCEPT !.pc = "reset"]
    /\ UNCHANGED <<rec, omitEmpty, requestMap, jobStatus, poll, hook, now>>

\* Lines 33-34: urlToDataURL throws, and startVariations with it.
SvTranscodeFail ==
    /\ sv.pc = "transcode"
    /\ sv' = [sv EXCEPT !.pc = "error"]
    /\ UNCHANGED <<rec, omitEmpty, requestMap, jobStatus, poll, hook, now>>

\* Lines 185-195: the reset write.
SvReset ==
    /\ sv.pc = "reset"
    /\ rec' = [rec EXCEPT !.Status = "processing", !.RequestIDs = <<>>,
                          !.SeenIDs = <<>>, !.FailedIDs = <<>>]
    /\ sv' = [sv EXCEPT !.pc = "submit", !.i = 0, !.requestIds = <<>>]
    /\ UNCHANGED <<omitEmpty, requestMap, jobStatus, poll, hook, now>>

\* SvSubmitOk starting the job's pollUntilDone at once, inside the loop.
SvSubmitOkSpawn ==
    /\ sv.pc = "submit"
    /\ LET rid == sv.i + 1
           last == ~(sv.i < sv.batchCount - 1)
       IN /\ jobStatus' = Put(jobStatus, rid, "processing")
          /\ requestMap' = Put(requestMap, rid, RecordId)
          /\ poll' = Put(poll, rid, [IdleTask EXCEPT !.pc = "getResult", !.requestId = rid])
          /\ sv' = [sv EXCEPT !.requestIds = Append(@, rid),
                              !.attempts = @ + 1,
                              !.i = IF last THEN @ + 1 ELSE @,
                              !.pc = IF last THEN "final" ELSE "sleep"]
    /\ UNCHANGED <<rec, omitEmpty, hook, now>>

\* Lines 198-201 with 102-107: the submission succeeds; the job is registered.
SvSubmitOk ==
    /\ sv.pc = "submit"
    /\ LET rid == sv.i + 1
           last == ~(sv.i < sv.batchCount - 1)
       IN /\ jobStatus' = Put(jobStatus, rid, "processing")
          /\ requestMap' = Put(requestMap, rid, RecordId)
          /\ sv' = [sv EXCEPT !.requestIds = Append(@, rid),
                              !.attempts = @ + 1,
                              !.i = IF last THEN @ + 1 ELSE @,
                              !.pc = IF last THEN "final" ELSE "sleep"]
    /\ UNCHANGED <<rec, omitEmpty, poll, hook, now>>

\* SvSubmitFail leaving the loop: the failure aborts the remaining fan-out.
SvSubmitFailAbort ==
    /\ sv.pc = "submit"
    /\ sv' = [sv EXCEPT !.attempts = @ + 1, !.i = @ + 1, !.pc = "final"]
    /\ UNCHANGED <<rec, omitEmpty, requestMap, jobStatus, poll, hook, now>>

\* Lines 102/105 with 202-204: the submission throws; logged and skipped.
SvSubmitFail ==
    /\ sv.pc = "submit"
    /\ sv' = [sv EXCEPT !.attempts = @ + 1,
                        !.i = @ + 1,
                        !.pc = IF sv.i + 1 < sv.batchCount THEN "submit" ELSE "final"]
    /\ UNCHANGED <<rec, omitEmpty, requestMap, jobStatus, poll, hook, now>>

\* Line 201: the pacing sleep ends; next iteration.
SvSleep ==
    /\ sv.pc = "sleep"
    /\ sv' = [sv EXCEPT !.i = @ + 1, !.slept = @ + 1, !.pc = "submit"]
    /\ UNCHANGED <<rec, omitEmpty, requestMap, jobStatus, poll, hook, now>>

\* Line 207: the final write of "Request IDs".
SvFinal ==
    /\ sv.pc = "final"
    /\ rec' = [rec EXCEPT !.RequestIDs = sv.requestIds]
    /\ sv' = [sv EXCEPT !.pc = "spawn"]
    /\ UNCHANGED <<omitEmpty, requestMap, jobStatus, poll, hook, now>>

\* Lines 208-210: start one pollUntilDone per submitted job and return.  Each
\* runs up to its first await: the deadline is set and getResult is in flight.
SvSpawn ==
    /\ sv.pc = "spawn"
    /\ poll' = [j \in Range(sv.requestIds) |->
                  [IdleTask EXCEPT !.pc = "getResult", !.requestId = j]]
    /\ sv' = [sv EXCEPT !.pc = "done", !.submitted = Len(sv.requestIds)]
    /\ UNCHANGED <<rec, omitEmpty, requestMap, jobStatus, hook, now>>

startVariations ==
    \/ SvGet \/ SvTranscode \/ SvTranscodeFail \/ SvReset
    \/ SvSubmitOk \/ SvSubmitFail \/ SvSleep \/ SvFinal \/ SvSpawn

(* --------------------- appendOutputs / markCompleted ------------------- *)
\* Line 122: a caller enters appendOutputs; the atGet of line 123 is in flight.
Enter(t, requestId, outputs, failed, cause) ==
    [t EXCEPT !.pc = "atGet", !.requestId = requestId, !.outputs = outputs,
              !.failed = failed, !.cause = cause, !.calls = @ + 1]

\* Lines 123-126: the record as read.
Snapshot(t) == [t EXCEPT !.pc = "atPatch", !.f = atGet(rec)]

\* Lines 126-133: the fields the write carries, from the record as read.  A
\* key whose value is undefined is left out of the JSON body (line 54), and
\* the store keeps that field.
appendPatch(r, t) ==
    [r EXCEPT !.Output = t.f.Output \o Attachments(t.outputs, t.requestId),
              !.SeenIDs = mergeIds(t.f.SeenIDs, <<t.requestId>>),
              !.FailedIDs = IF t.failed THEN mergeIds(t.f.FailedIDs, <<t.requestId>>)
                            ELSE IF t.f.FailedDefined THEN t.f.FailedIDs
                            ELSE @]

\* Lines 133-135: the write landed; markCompleted's atGet is in flight.
Sent(t) == [t EXCEPT !.pc = "markGet", !.f = NoSnapshot]

\* allSeen without the req.size > 0 test of line 73.
allSeenNoSize(r) ==
    LET req == parseIds(r.RequestIDs)
        seen == parseIds(r.SeenIDs)
    IN \A id \in req : id \in seen

\* Lines 71-73: the completion test on the record as read by markCompleted.
allSeen(r) ==
    LET req == parseIds(r.RequestIDs)
        seen == parseIds(r.SeenIDs)
    IN req # {} /\ \A id \in req : id \in seen

\* Lines 73-74: the test passes; the write is built (nowISO) and sent.
Decide(t) == [t EXCEPT !.pc = "markPatch", !.stamp = now]

\* Line 74: the write lands.
completedPatch(r, t) == [r EXCEPT !.Status = "completed", !.CompletedAt = t.stamp]

\* The task after its appendOutputs call returned.
Return(t, resp) ==
    [t EXCEPT !.pc = "done", !.f = NoSnapshot, !.stamp = NoTime, !.resp = resp]

\* Lines 68-76 run without another writer in between.
markCompleted(r) == IF allSeen(r) THEN completedPatch(r, [stamp |-> now]) ELSE r

\* Lines 122-136 run without another writer in between: one whole call.
appendOutputs(r, requestId, outputs, failed) ==
    markCompleted(appendPatch(r, [requestId |-> requestId, outputs |-> outputs,
                                  failed |-> failed, f |-> atGet(r)]))

(* --------------------------- pollUntilDone ----------------------------- *)
\* Lines 143-154: getResult answers with the job's status.
PollResult(j) ==
    /\ j \in DOMAIN poll /\ poll[j].pc = "getResult"
    /\ LET status == jobStatus[j]
       IN poll' = [poll EXCEPT ![j] =
             IF IsSuccess(status) THEN Enter(@, j, JobOutputs(j), FALSE, "succeeded")
             ELSE IF IsFailure(status) THEN Enter(@, j, <<>>, TRUE, "failed")
             ELSE [@ EXCEPT !.pc = "sleep"]]
    /\ UNCHANGED <<rec, omitEmpty, requestMap, jobStatus, sv, hook, now>>

\* Lines 114 and 155-158: getResult throws; reconciled as a failure.
PollError(j) ==
    /\ j \in DOMAIN poll /\ poll[j].pc = "getResult"
    /\ poll' = [poll EXCEPT ![j] = Enter(@, j, <<>>, TRUE, "error")]
    /\ UNCHANGED <<rec, omitEmpty, requestMap, jobStatus, sv, hook, now>>

\* Lines 154 and 141: the sleep ends and Date.now() < timeout; poll again.
\* The first test of line 141 follows line 140 at once and always passes; the
\* later ones, after a sleep, go either way as the clock stands.
PollAgain(j) ==
    /\ j \in DOMAIN poll /\ poll[j].pc = "sleep"
    /\ poll' = [poll EXCEPT ![j].pc = "getResult"]
    /\ UNCHANGED <<rec, omitEmpty, requestMap, jobStatus, sv, hook, now>>

\* Lines 141 and 161-162: the sleep ends and the deadline has passed;
\* reconciled as a failure.
PollTimeout(j) ==
    /\ j \in DOMAIN poll /\ poll[j].pc = "sleep"
    /\ poll' = [poll EXCEPT ![j] = Enter(@, j, <<>>, TRUE, "timeout")]
    /\ UNCHANGED <<rec, omitEmpty, requestMap, jobStatus, sv, hook, now>>

\* Line 123 inside a poller
PollAtGet(j) ==
    /\ j \in DOMAIN poll /\ poll[j].pc = "atGet"
    /\ poll' = [poll EXCEPT ![j] = Snapshot(@)]
    /\ UNCHANGED <<rec, omitEmpty, requestMap, jobStatus, sv, hook, now>>

\* Lines 128-133 inside a poller
PollAtPatch(j) ==
    /\ j \in DOMAIN poll /\ poll[j].pc = "atPatch"
    /\ rec' = appendPatch(rec, poll[j])
    /\ poll' = [poll EXCEPT ![j] = Sent(@)]
    /\ UNCHANGED <<omitEmpty, requestMap, jobStatus, sv, hook, now>>

\* Lines 69-73 inside a poller
PollMarkGet(j) ==
    /\ j \in DOMAIN poll /\ poll[j].pc = "markGet"
    /\ poll' = [poll EXCEPT ![j] = IF allSeen(rec) THEN Decide(@)
                                   ELSE Return(@, 0)]
    /\ UNCHANGED <<rec, omitEmpty, requestMap, jobStatus, sv, hook, now>>

\* Line 74 inside a poller
PollMarkPatch(j) ==
    /\ j \in DOMAIN poll /\ poll[j].pc = "markPatch"
    /\ rec' = completedPatch(rec, poll[j])
    /\ poll' = [poll EXCEPT ![j] = Return(@, 0)]
    /\ UNCHANGED <<omitEmpty, requestMap, jobStatus, sv, hook, now>>

pollUntilDone(j) ==
    \/ PollResult(j) \/ PollError(j) \/ PollAgain(j) \/ PollTimeout(j)
    \/ PollAtGet(j) \/ PollAtPatch(j) \/ PollMarkGet(j) \/ PollMarkPatch(j)

(* ----------------------- POST /webhooks/wavespeed ---------------------- *)
\* A job id the job service knows and this process never registered.
ForeignId == 0

\* The bodies the job service can post now: {request_id, status, output}.
Notifications ==
    {[id |-> j, status |-> jobStatus[j],
      output |-> IF IsSuccess(jobStatus[j]) THEN JobOutputs(j) ELSE <<>>] :
        j \in DOMAIN jobStatus}
    \cup {[id |-> ForeignId, status |-> st,
           output |-> IF IsSuccess(st) THEN JobOutputs(ForeignId) ELSE <<>>] :
        st \in {"processing", "succeeded", "failed"}}

\* HookReceive without the Registry test of line 238.
HookReceiveAnyId(k) ==
    /\ hook[k].pc = "idle"
    /\ \A m \in Hooks : m < k => hook[m].pc # "idle"
    /\ \E b \in Notifications :
         hook' = [hook EXCEPT ![k] =
            IF IsSuccess(b.status) THEN Enter(@, b.id, b.output, FALSE, "succeeded")
            ELSE IF IsFailure(b.status) THEN Enter(@, b.id, <<>>, TRUE, "failed")
            ELSE [@ EXCEPT !.pc = "done", !.requestId = b.id, !.resp = 200]]
    /\ UNCHANGED <<rec, omitEmpty, requestMap, jobStatus, sv, poll, now>>

\* Lines 232-245 up to the first await.
HookReceive(k) ==
    /\ hook[k].pc = "idle"
    /\ \A m \in Hooks : m < k => hook[m].pc # "idle"
    /\ \E b \in Notifications :
         hook' = [hook EXCEPT ![k] =
            IF b.id \notin DOMAIN requestMap
            THEN [@ EXCEPT !.pc = "done", !.requestId = b.id, !.resp = 202]
            ELSE IF IsSuccess(b.status) THEN Enter(@, b.id, b.output, FALSE, "succeeded")
            ELSE IF IsFailure(b.status) THEN Enter(@, b.id, <<>>, TRUE, "failed")
            ELSE [@ EXCEPT !.pc = "done", !.requestId = b.id, !.resp = 200]]
    /\ UNCHANGED <<rec, omitEmpty, requestMap, jobStatus, sv, poll, now>>

\* Line 123 inside a webhook request
HookAtGet(k) ==
    /\ hook[k].pc = "atGet"
    /\ hook' = [hook EXCEPT ![k] = Snapshot(@)]
    /\ UNCHANGED <<rec, omitEmpty, requestMap, jobStatus, sv, poll, now>>

\* Lines 128-133 inside a webhook request
HookAtPatch(k) ==
    /\ hook[k].pc = "atPatch"
    /\ rec' = appendPatch(rec, hook[k])
    /\ hook' = [hook EXCEPT ![k] = Sent(@)]
    /\ UNCHANGED <<omitEmpty, requestMap, jobStatus, sv, poll, now>>

\* Lines 69-73 inside a webhook request; line 245 when the test fails.
HookMarkGet(k) ==
    /\ hook[k].pc = "markGet"
    /\ hook' = [hook EXCEPT ![k] = IF allSeen(rec) THEN Decide(@) ELSE Return(@, 200)]
    /\ UNCHANGED <<rec, omitEmpty, requestMap, jobStatus, sv, poll, now>>

\* Lines 74 and 245 inside a webhook request
HookMarkPatch(k) ==
    /\ hook[k].pc = "markPatch"
    /\ rec' = completedPatch(rec, hook[k])
    /\ hook' = [hook EXCEPT ![k] = Return(@, 200)]
    /\ UNCHANGED <<omitEmpty, requestMap, jobStatus, sv, poll, now>>

webhook(k) ==
    \/ HookReceive(k) \/ HookAtGet(k) \/ HookAtPatch(k)
    \/ HookMarkGet(k) \/ HookMarkPatch(k)

(* ----------------------------- environment ----------------------------- *)
\* The job service finishes a job.
JobTerminates(j) ==
    /\ j \in DOMAIN jobStatus /\ jobStatus[j] = "processing"
    /\ \E st \in {"succeeded", "failed"} : jobStatus' = [jobStatus EXCEPT ![j] = st]
    /\ UNCHANGED <<rec, omitEmpty, requestMap, sv, poll, hook, now>>

\* Line 30: the wall clock advances.
Tick ==
    /\ now < MaxClock
    /\ now' = now + 1
    /\ UNCHANGED <<rec, omitEmpty, requestMap, jobStatus, sv, poll, hook>>

Next ==
    \/ startVariations
    \/ \E j \in Jobs : pollUntilDone(j)
    \/ \E k \in Hooks : webhook(k)
    \/ \E j \in Jobs : JobTerminates(j)
    \/ Tick

Spec == Init /\ [][Next]_vars

(* ------------------ startVariations alone, any fan-out ----------------- *)
\* The "Batch Count" values of the record: none, below, inside and above 1..10.
FanoutFields == {<<>>, <<-3>>, <<0>>, <<1>>, <<4>>, <<10>>, <<15>>}

InitFanout ==
    /\ \E field \in FanoutFields : rec = InitRec(TRUE, TRUE, field)
    /\ InitRest

SpecFanout == InitFanout /\ [][startVariations]_vars

(* --------------- the pull channel alone, fairly scheduled -------------- *)
\* No notification is ever delivered.  Every call in progress goes on (the
\* services answer), and a poller whose job never finishes meets its deadline.
NextPull ==
    \/ startVariations
    \/ \E j \in Jobs : pollUntilDone(j)
    \/ \E j \in Jobs : JobTerminates(j)
    \/ Tick

SpecPull ==
    /\ Init
    /\ [][NextPull]_vars
    /\ WF_vars(startVariations)
    /\ \A j \in Jobs : WF_vars(pollUntilDone(j)) /\ SF_vars(PollTimeout(j))

(* ------------- the pull channel with a failing record store ----------- *)
\* Lines 45 and 55, or a rejected fetch, inside a poller's appendOutputs: the
\* atGet or atPatch in flight throws, and its write, if any, did not land.  A
\* call made inside the try of line 142 (lines 147, 151) is caught at line 155,
\* which calls appendOutputs again with failed: true.  A call made in the catch
\* (line 157) or after the loop (line 162) rejects pollUntilDone; line 208
\* logs it.
PollStoreError(j) ==
    /\ j \in DOMAIN poll /\ poll[j].pc \in {"atGet", "atPatch", "markGet", "markPatch"}
    /\ poll' = [poll EXCEPT ![j] =
          IF poll[j].cause \in {"succeeded", "failed"}
          THEN Enter(Return(@, 0), j, <<>>, TRUE, "error")
          ELSE Return(@, 0)]
    /\ UNCHANGED <<rec, omitEmpty, requestMap, jobStatus, sv, hook, now>>

NextFaulty ==
    \/ startVariations
    \/ \E j \in Jobs : pollUntilDone(j)
    \/ \E j \in Jobs : PollStoreError(j)
    \/ \E j \in Jobs : JobTerminates(j)
    \/ Tick

SpecFaulty == Init /\ [][NextFaulty]_vars

(* ------------------------- the batch, as read -------------------------- *)
jobIds == parseIds(rec.RequestIDs)
seenIds == parseIds(rec.SeenIDs)
failedIds == parseIds(rec.FailedIDs)

\* The positions of "Output" whose filename names job j.
OwnedBy(j) == {k \in 1..Len(rec.Output) : rec.Output[k].filename[2] = j}

\* Nothing is running: startVariations returned or threw, every poller that
\* was started has returned, and no webhook request is being served.
Quiescent ==
    /\ sv.pc \in {"done", "error"}
    /\ \A j \in DOMAIN poll : poll[j].pc = "done"
    /\ \A k \in Hooks : hook[k].pc \in {"idle", "done"}

(* ------------------------------- claims -------------------------------- *)
\* C1: Reconciler idempotence.  From every reachable record, and for every
\* registered job and outcome, calling appendOutputs twice in sequence with
\* the same arguments leaves the same Output and Seen IDs as calling it once.
C1_Idempotent ==
    \A j \in DOMAIN requestMap, failed \in BOOLEAN :
        LET outputs == IF failed THEN <<>> ELSE JobOutputs(j)
            once == appendOutputs(rec, j, outputs, failed)
            twice == appendOutputs(once, j, outputs, failed)
        IN twice.Output = once.Output /\ twice.SeenIDs = once.SeenIDs

\* C2: exactly-once effect.  In every reachable state, Output holds the
\* outputs reported for a job at most once, whatever the pollers and the
\* webhook requests did.
C2_ExactlyOnce ==
    \A j \in Jobs : Cardinality(OwnedBy(j)) <= Len(JobOutputs(j))

\* C3: no lost update.  When the pollers of two different jobs have both
\* returned (and no webhook request ever ran), Seen IDs holds both job ids.
C3_NoLostUpdate ==
    \A a \in Jobs, b \in Jobs :
        (/\ a # b
         /\ a \in DOMAIN poll /\ poll[a].pc = "done"
         /\ b \in DOMAIN poll /\ poll[b].pc = "done"
         /\ \A k \in Hooks : hook[k].pc = "idle")
        => {a, b} \subseteq seenIds

\* C4: Seen IDs is a subset of Request IDs in the record, in every state.
C4_SeenSubsetJobs == seenIds \subseteq jobIds

\* C5: Failed IDs is a subset of Seen IDs in the record, in every state.
C5_FailedSubsetSeen == failedIds \subseteq seenIds

\* C6: completion is monotonic.  No step taken when Status is completed
\* changes Status or Completed At.
C6_CompletionMonotonic ==
    [][rec.Status = "completed" =>
          rec'.Status = "completed" /\ rec'.CompletedAt = rec.CompletedAt]_vars

\* C7: in every state, Status is completed exactly when Request IDs is
\* non-empty and all of its ids are in Seen IDs.
C7_CompletedIff ==
    (rec.Status = "completed") <=> (jobIds # {} /\ jobIds \subseteq seenIds)

\* C8: convergence.  Once startVariations has returned with at least one
\* submitted job, the record eventually has Status completed.
C8_Converges ==
    (sv.pc = "done" /\ sv.submitted >= 1) ~> (rec.Status = "completed")

\* C9: poller timeout.  When everything has returned, a job whose poller
\* ended by its deadline is in Seen IDs and in Failed IDs, owns no entry of
\* Output, and the record is completed if all of Request IDs is in Seen IDs.
C9_TimeoutReconciled ==
    \A j \in DOMAIN poll :
        (Quiescent /\ poll[j].cause = "timeout") =>
            /\ j \in seenIds /\ j \in failedIds
            /\ OwnedBy(j) = {}
            /\ (jobIds \subseteq seenIds => rec.Status = "completed")

\* The fan-out the claim C10 gives for a "Batch Count" field: 4 when the
\* record has none, else the number clamped to 1..10.
ClampedFanout(field) ==
    IF field = <<>> THEN DefaultBatch ELSE Max(MinBatch, Min(MaxBatch, field[1]))

\* C10: fan-out clamp.  When startVariations has returned, it has attempted
\* as many submissions as the clamped Batch Count, and returns that count
\* as `submitted` when every submission succeeded.
C10_FanoutClamp ==
    sv.pc = "done" =>
        /\ sv.attempts = ClampedFanout(rec.BatchCount)
        /\ (Len(sv.requestIds) = sv.attempts =>
               sv.submitted = ClampedFanout(rec.BatchCount))

\* C11: a notification for a job id that is not in the Job Registry is
\* answered 202 without a call of appendOutputs, and the step that receives
\* it changes neither the record nor the Registry.
C11_UnknownIdIgnored ==
    /\ [](\A k \in Hooks :
            (hook[k].pc # "idle" /\ hook[k].requestId \notin DOMAIN requestMap) =>
                hook[k].pc = "done" /\ hook[k].resp = 202 /\ hook[k].calls = 0)
    /\ [][\A k \in Hooks :
            (/\ hook[k].pc = "idle" /\ hook'[k].pc # "idle"
             /\ hook'[k].requestId \notin DOMAIN requestMap) =>
                rec' = rec /\ requestMap' = requestMap]_vars

\* A notification for an unregistered id has been answered.
C11_Witness ==
    \E k \in Hooks : hook[k].pc = "done" /\ hook[k].resp = 202

\* The scenario of C12 has run to its end: job 1 succeeded and its poller saw
\* it, job 2 failed and both its poller and a notification reported it.
C12_ScenarioDone ==
    /\ Quiescent
    /\ DOMAIN poll = {1, 2}
    /\ poll[1].cause = "succeeded" /\ poll[2].cause = "failed"
    /\ \A k \in Hooks : hook[k].pc = "done" /\ hook[k].requestId = 2
                          /\ hook[k].cause = "failed"

\* C12: mixed channels.  At the end of that scenario Seen IDs is {1, 2},
\* Failed IDs is {2}, Output is the one output of job 1 and Status is
\* completed.
C12_MixedChannels ==
    C12_ScenarioDone =>
        /\ seenIds = {1, 2} /\ failedIds = {2}
        /\ rec.Output = Attachments(JobOutputs(1), 1)
        /\ rec.Status = "completed"

\* s is an initial part of t.
IsPrefix(s, t) == Len(s) <= Len(t) /\ SubSeq(t, 1, Len(s)) = s

\* C13: Output is append-only.  In every step the old Output is an initial
\* part of the new one.
C13_OutputAppendOnly == [][IsPrefix(rec.Output, rec'.Output)]_vars

\* The run of startVariations has ended and no submission succeeded.
ZeroSubmitted == sv.pc = "done" /\ sv.submitted = 0

\* C14: after a run that ended with no successful submission, jobIds is empty
\* and Status is processing, no poller exists, no call of appendOutputs is in
\* progress, and no call of appendOutputs, for any job id and either outcome,
\* would set Status to completed.
C14_ZeroSubmissionStays ==
    ZeroSubmitted =>
        /\ jobIds = {} /\ rec.Status = "processing"
        /\ poll = <<>> /\ requestMap = <<>>
        /\ \A k \in Hooks : hook[k].calls = 0
        /\ \A j \in Jobs \cup {ForeignId}, failed \in BOOLEAN :
              appendOutputs(rec, j, IF failed THEN <<>> ELSE JobOutputs(j), failed).Status
                  = "processing"

\* A run ended with no successful submission, and a notification came later.
C14_Witness ==
    ZeroSubmitted /\ sv.attempts = MaxFanout /\ \E k \in Hooks : hook[k].pc = "done"

\* C15: each poller calls appendOutputs exactly once and then stops, also
\* when the record store fails inside that call: a poller never makes a
\* second call, and a poller that has stopped has made one.
C15_PollerInvokesOnce ==
    \A j \in DOMAIN poll :
        /\ poll[j].calls <= 1
        /\ poll[j].pc = "done" => poll[j].calls = 1

\* C16: one terminal outcome per job.  In every reachable state no job id is
\* in Failed IDs while entries of Output are its own.
C16_OneOutcome ==
    \A j \in Jobs : ~(j \in failedIds /\ OwnedBy(j) # {})

C18_FailedSubmissionSkipped ==
    /\ sv.pc = "done" =>
          /\ sv.attempts = sv.batchCount
          /\ sv.submitted = Len(sv.requestIds)
          /\ rec.RequestIDs = sv.requestIds
          /\ DOMAIN poll = Range(sv.requestIds)
    /\ Range(sv.requestIds) = DOMAIN jobStatus
    /\ DOMAIN requestMap = DOMAIN jobStatus
    /\ Cardinality(DOMAIN jobStatus) = Len(sv.requestIds)
    /\ Len(sv.requestIds) <= sv.attempts

\* A run in which a submission failed and later ones succeeded.
C18_Witness ==
    /\ sv.pc = "done" /\ sv.batchCount > 2
    /\ 1 \notin DOMAIN jobStatus /\ 2 \in DOMAIN jobStatus
    /\ sv.submitted < sv.attempts

\* C19: submission pacing.  Between any two consecutive submission attempts
\* the pacing delay elapses, whether the earlier attempt succeeded or failed:
\* when an attempt is about to be made or was just made, every attempt before
\* the latest one has been followed by a sleep.
C19_PacedAttempts ==
    /\ sv.pc = "submit" => sv.slept = sv.attempts
    /\ sv.pc \in {"sleep", "final", "spawn", "done"} => sv.slept >= sv.attempts - 1

\* C20: validation failure leaves state unchanged.  When the record has no
\* Prompt or no Subject, startVariations ends with an error at its first
\* step, and the record is as it was before the call, no job was submitted,
\* the Job Registry is empty, no poller exists and no appendOutputs call was
\* ever made.
C20_ValidationNoMutation ==
    (~rec.Prompt \/ ~rec.Subject) =>
        /\ sv.pc \in {"idle", "error"}
        /\ sv.requestIds = <<>> /\ sv.attempts = 0
        /\ rec = InitRec(rec.Prompt, rec.Subject, rec.BatchCount)
        /\ jobStatus = <<>> /\ requestMap = <<>> /\ poll = <<>>
        /\ \A k \in Hooks : hook[k].calls = 0

\* startVariations has thrown for want of a Prompt or a Subject, and a
\* notification came afterwards.
C20_Witness ==
    /\ sv.pc = "error" /\ (~rec.Prompt \/ ~rec.Subject)
    /\ \E k \in Hooks : hook[k].pc = "done"

====
